---- MODULE Spec2Model ----
(***************************************************************************)
(* Model of recipebuilder.DockerRecipeBuilder (docker_recipe_builder.go):  *)
(* Build, extractExposedPorts, extractUser, convertDockerURI,              *)
(* parseDockerRepoUrl, officialRegistry and parseDockerRepositoryTag.      *)
(*                                                                         *)
(* Go strings are modelled as sequences of one-character strings, so that  *)
(* SplitN, Contains, IndexRune, LastIndex and slicing are computed and not *)
(* assumed.                                                                *)
(***************************************************************************)
EXTENDS Integers, Sequences, FiniteSets, TLC

VARIABLES
  dockerURI,        \* argument of convertDockerURI / parseDockerRepoUrl
  converted,        \* outcome of convertDockerURI(dockerURI)
  parsed,           \* outcome of parseDockerRepoUrl(dockerURI)
  reparsed,         \* outcome of parseDockerRepoUrl on the canonical path of parsed
  upc,              \* position of the reference-normalisation run
  executionMetadata,\* argument of extractExposedPorts
  extracted,        \* outcome of extractExposedPorts(executionMetadata)
  desiredApp,       \* the DesireAppRequestFromCC handed to Build
  lifecycles,       \* names present in config.Lifecycles
  pc,               \* position of Build
  stages,           \* the stages of Build that have run, in order
  keyPairs,         \* outcomes of the KeyFactory.NewKeyPair calls, in order
  rootFSPath,       \* Build local
  user,             \* Build local
  numFiles,         \* Build local
  setup,            \* Build local
  actions,          \* Build local
  monitor,          \* Build local
  desiredAppPorts,  \* Build local
  routePorts,       \* the port list handed to helpers.CCRouteInfoToRoutes
  translatedRoutes, \* what helpers.CCRouteInfoToRoutes returned
  desiredAppRoutingInfo, \* Build local
  result            \* what Build returned

uriVars == <<dockerURI, converted, parsed, reparsed, upc>>
portVars == <<executionMetadata, extracted>>
buildVars == <<desiredApp, lifecycles, pc, stages, keyPairs, rootFSPath, user,
               numFiles, setup, actions, monitor, desiredAppPorts, routePorts,
               translatedRoutes, desiredAppRoutingInfo, result>>
vars == <<uriVars, portVars, buildVars>>

(***************************************************************************)
(* Bounds of the model.                                                    *)
(***************************************************************************)
\* image references are concatenations of at most MaxTokens tokens
MaxTokens == 4
\* metadata handed to extractExposedPorts declares at most MaxPorts ports
MaxPorts == 3
\* metadata of a Build request declares at most MaxBuildPorts ports
MaxBuildPorts == 2

(***************************************************************************)
(* Go string primitives over sequences of characters.                      *)
(***************************************************************************)
\* strings.Index(s, c) for a one-character c, 1-based; 0 when absent
IndexOf(s, c) ==
  IF \E i \in 1..Len(s) : s[i] = c
  THEN CHOOSE i \in 1..Len(s) : s[i] = c /\ \A j \in 1..(i-1) : s[j] # c
  ELSE 0

\* strings.LastIndex(s, c) for a one-character c, 1-based; 0 when absent
LastIndexOf(s, c) ==
  IF \E i \in 1..Len(s) : s[i] = c
  THEN CHOOSE i \in 1..Len(s) : s[i] = c /\ \A j \in (i+1)..Len(s) : s[j] # c
  ELSE 0

\* strings.Contains(s, sub)
Contains(s, sub) ==
  \E i \in 1..(Len(s) - Len(sub) + 1) : SubSeq(s, i, i + Len(sub) - 1) = sub

\* strings.SplitN(s, "/", 2)
SplitN2(s) ==
  LET i == IndexOf(s, "/") IN
  IF i = 0 THEN <<s>>
  ELSE <<SubSeq(s, 1, i - 1), SubSeq(s, i + 1, Len(s))>>

DockerScheme == <<"d","o","c","k","e","r">>
DockerIndexServer == <<"d","o","c","k","e","r",".","i","o">>
Localhost == <<"l","o","c","a","l","h","o","s","t">>
LibraryPrefix == <<"l","i","b","r","a","r","y","/">>
SchemeSeparator == <<":","/","/">>

(***************************************************************************)
(* parseDockerRepositoryTag, officialRegistry, parseDockerRepoUrl.         *)
(***************************************************************************)
parseDockerRepositoryTag(remoteName) ==
  LET n == LastIndexOf(remoteName, ":") IN
  IF n = 0 THEN <<remoteName, <<>>>>
  ELSE LET tag == SubSeq(remoteName, n + 1, Len(remoteName)) IN
       IF ~Contains(tag, <<"/">>)
       THEN <<SubSeq(remoteName, 1, n - 1), tag>>
       ELSE <<remoteName, <<>>>>

officialRegistry(nameParts) ==
  \/ Len(nameParts) = 1
  \/ nameParts[1] = DockerIndexServer
  \/ /\ ~Contains(nameParts[1], <<".">>)
     /\ ~Contains(nameParts[1], <<":">>)
     /\ nameParts[1] # Localhost

Panic == [kind |-> "panic"]

\* the prefix added without looking for a '/' in the remote name
withLibraryPrefixAlways(remoteName) == LibraryPrefix \o remoteName

\* lines 290-294: a remote name with no '/' is prefixed with "library/"
withLibraryPrefix(remoteName) ==
  IF IndexOf(remoteName, "/") = 0 THEN LibraryPrefix \o remoteName ELSE remoteName

\* nameParts[1] of the Go code is nameParts[2] here; indexing past the end
\* of the slice is a runtime panic (index out of range).
parseDockerRepoUrl(uri) ==
  LET nameParts == SplitN2(uri) IN
  IF officialRegistry(nameParts)
  THEN IF nameParts[1] = DockerIndexServer /\ Len(nameParts) < 2
       THEN Panic
       ELSE LET indexName == IF nameParts[1] = DockerIndexServer
                             THEN DockerIndexServer ELSE <<>>
                remote0 == IF nameParts[1] = DockerIndexServer
                           THEN nameParts[2] ELSE uri
                remote1 == withLibraryPrefix(remote0)
                rt == parseDockerRepositoryTag(remote1)
            IN [kind |-> "ok", indexName |-> indexName,
                remoteName |-> rt[1], tag |-> rt[2]]
  ELSE IF Len(nameParts) < 2
       THEN Panic
       ELSE LET rt == parseDockerRepositoryTag(nameParts[2])
            IN [kind |-> "ok", indexName |-> nameParts[1],
                remoteName |-> rt[1], tag |-> rt[2]]

(***************************************************************************)
(* (&url.URL{Scheme, Path, Fragment}).String() of net/url.                 *)
(***************************************************************************)
Unreserved == {"a","b","c","d","e","f","g","h","i","j","k","l","m","n","o",
               "p","q","r","s","t","u","v","w","x","y","z",
               "0","1","2","3","4","5","6","7","8","9","-","_",".","~"}
Reserved == {"$","&","+",",","/",":",";","=","?","@"}

\* net/url shouldEscape(c, mode) for mode in {"path", "fragment"}
shouldEscape(c, mode) ==
  IF c \in Unreserved THEN FALSE
  ELSE IF c \in Reserved
       THEN IF mode = "path" THEN c \in {";", ",", "?"} ELSE FALSE
       ELSE TRUE

\* the %XX form of the characters the model can produce
PercentEncoded(c) ==
  CASE c = "?" -> <<"%","3","F">>
    [] c = "#" -> <<"%","2","3">>
    [] c = ";" -> <<"%","3","B">>
    [] c = "," -> <<"%","2","C">>
    [] c = "%" -> <<"%","2","5">>
    [] OTHER   -> <<"%","2","0">>

RECURSIVE escape(_, _)
escape(s, mode) ==
  IF s = <<>> THEN <<>>
  ELSE (IF shouldEscape(Head(s), mode) THEN PercentEncoded(Head(s)) ELSE <<Head(s)>>)
       \o escape(Tail(s), mode)

\* a serialisation that drops the fragment
URLStringNoFragment(u) ==
  u.Scheme \o <<":","/","/">> \o escape(u.Path, "path")

\* URL.String() for a URL with no Opaque, User, Host and RawQuery
URLString(u) ==
  LET scheme == IF u.Scheme # <<>> THEN u.Scheme \o <<":">> ELSE <<>>
      slashes == IF u.Scheme # <<>> /\ u.Path # <<>> THEN <<"/","/">> ELSE <<>>
      path == escape(u.Path, "path")
      fragment == IF u.Fragment # <<>>
                  THEN <<"#">> \o escape(u.Fragment, "fragment") ELSE <<>>
  IN scheme \o slashes \o path \o fragment

ErrScheme == "docker URI should not contain scheme"

convertDockerURI(uri) ==
  IF Contains(uri, SchemeSeparator)
  THEN [kind |-> "err", err |-> ErrScheme]
  ELSE LET p == parseDockerRepoUrl(uri) IN
       IF p.kind = "panic" THEN Panic
       ELSE [kind |-> "ok",
             url |-> URLString([Scheme |-> DockerScheme,
                                Path |-> p.indexName \o <<"/">> \o p.remoteName,
                                Fragment |-> p.tag])]

(***************************************************************************)
(* The image references the normaliser is run on.                          *)
(***************************************************************************)
Tokens == {<<"a">>, <<"/">>, <<":">>, <<".">>, <<"?">>, DockerIndexServer, Localhost}

RECURSIVE TokenStrings(_)
TokenStrings(n) ==
  IF n = 0 THEN {<<>>}
  ELSE LET P == TokenStrings(n - 1) IN P \cup {p \o t : p \in P, t \in Tokens}

RefUbuntu == <<"u","b","u","n","t","u">>
RefMyRegistry == <<"m","y","r","e","g","i","s","t","r","y",".","c","o","m",":","5","0","0","0","/","f","o","o","/","b","a","r",":","1",".","0">>
RefNginx == <<"d","o","c","k","e","r",".","i","o","/","l","i","b","r","a","r","y","/","n","g","i","n","x">>

ImageRefs == TokenStrings(MaxTokens) \cup {RefUbuntu, RefMyRegistry, RefNginx}

None == [kind |-> "none"]

\* the canonical reference path of a normalised triple (spec 4.2 step 6)
CanonicalPath(p) ==
  IF p.indexName = <<>> THEN p.remoteName
  ELSE p.indexName \o <<"/">> \o p.remoteName

(***************************************************************************)
(* ExecutionMetadata and port extraction.                                  *)
(***************************************************************************)
\* the package's defaults, declared outside docker_recipe_builder.go: the
\* port of an image that declares none (line 229), the port of the sshd
\* (lines 153 and 178, written 2222 at line 166) and the file descriptor
\* limit (line 76)
DefaultPort == 8080
DefaultSSHPort == 2222
DefaultFileDescriptorLimit == 1024

PortNumbers == {DefaultPort, 80, DefaultSSHPort}
Protocols == {"tcp", "udp"}
PortDescriptors == [Port : PortNumbers, Protocol : Protocols]
Users == {"", "vcap"}

RECURSIVE SeqsUpTo(_, _)
SeqsUpTo(S, n) ==
  IF n = 0 THEN {<<>>}
  ELSE LET P == SeqsUpTo(S, n - 1) IN P \cup {Append(p, x) : p \in P, x \in S}

\* an ExecutionMetadata blob that json.Unmarshal rejects
MalformedBlob == [kind |-> "malformed"]

\* a well-formed blob, standing for the JSON encoding of its fields
Blob(u, ps) == [kind |-> "json", User |-> u, ExposedPorts |-> ps]

ErrMetadata == "invalid execution metadata"

NewDockerExecutionMetadata(blob) ==
  IF blob.kind = "malformed"
  THEN [kind |-> "err", err |-> ErrMetadata]
  ELSE [kind |-> "ok", User |-> blob.User, ExposedPorts |-> blob.ExposedPorts]

ErrNoTcpPorts == "No tcp ports found in image metadata"

\* the range loop of extractExposedPorts
RECURSIVE appendTcpPorts(_, _)
appendTcpPorts(ports, exposedPorts) ==
  IF exposedPorts = <<>> THEN ports
  ELSE appendTcpPorts(IF Head(exposedPorts).Protocol = "tcp"
                      THEN Append(ports, Head(exposedPorts).Port)
                      ELSE ports,
                      Tail(exposedPorts))

\* the default port kept in front of the declared ports
extractExposedPortsKeepDefault(md) ==
  LET ports == appendTcpPorts(<<DefaultPort>>, md.ExposedPorts)
  IN [kind |-> "ok", ports |-> ports]

extractExposedPorts(md) ==
  LET exposedPorts == md.ExposedPorts
      ports0 == IF Len(exposedPorts) = 0 THEN <<DefaultPort>> ELSE <<>>
      ports == appendTcpPorts(ports0, exposedPorts)
  IN IF Len(ports) = 0
     THEN [kind |-> "err", err |-> ErrNoTcpPorts]
     ELSE [kind |-> "ok", ports |-> ports]

\* DockerRecipeBuilder.ExtractExposedPorts
ExtractExposedPortsOf(blob) ==
  LET metadata == NewDockerExecutionMetadata(blob) IN
  IF metadata.kind = "err" THEN metadata
  ELSE extractExposedPorts(metadata)

extractUser(md) == IF md.User # "" THEN md.User ELSE "root"

(***************************************************************************)
(* Collaborators of Build that live in other files of the package.         *)
(***************************************************************************)
DIEGO_SSH == "diego-ssh"
CF_ROUTER == "cf-router"
RouteKinds == {CF_ROUTER, DIEGO_SSH}

ErrRoutes == "route translation failed"

\* helpers.CCRouteInfoToRoutes(routingInfo, ports): an error, or a route
\* table with one entry for each kind of the routing metadata
CCRouteInfoToRoutes(routingInfo, ports) ==
  {[kind |-> "err", err |-> ErrRoutes],
   [kind |-> "ok",
    routes |-> [k \in routingInfo |-> <<"route", k, ports>>]]}

\* getParallelAction(ports, user): one port probe for each port, run as user
getParallelAction(ports, u) ==
  [type |-> "Parallel",
   actions |-> [i \in 1..Len(ports) |->
                  [type |-> "Run", User |-> u,
                   Path |-> "/tmp/lifecycle/healthcheck",
                   Args |-> <<"-port", ports[i]>>]]]

\* createLrpEnv(env, port): the request environment plus the PORT variable
createLrpEnv(env, port) == Append(env, [Name |-> "PORT", Value |-> port])

\* KeyFactory.NewKeyPair(bits): the n-th call fails or yields the n-th pair
NewKeyPair(n) ==
  {[kind |-> "err", err |-> <<"key generation failed", n>>],
   [kind |-> "ok", id |-> n]}

Nil == [type |-> "nil"]

\* models.WrapAction: a nil action stays nil
WrapAction(a) == IF a.type = "nil" THEN Nil ELSE [type |-> "Wrapped", action |-> a]

(***************************************************************************)
(* The requests Build is run on.                                           *)
(***************************************************************************)
ErrDockerImageMissing == "ErrDockerImageMissing"
ErrMultipleAppSources == "ErrMultipleAppSources"
ErrNoDockerImage == "ErrNoDockerImage"
ErrNoLifecycleDefined == "ErrNoLifecycleDefined"

BuildImageUrls ==
  {<<>>, RefUbuntu, DockerIndexServer, RefNginx,
   <<"a",":","/","/","a">>, <<"a",".","a","/","a",":","a">>}

BuildPortDescriptors ==
  {[Port |-> 80, Protocol |-> "tcp"], [Port |-> DefaultSSHPort, Protocol |-> "tcp"],
   [Port |-> 80, Protocol |-> "udp"]}

BuildBlobs ==
  {MalformedBlob} \cup
  {Blob(u, ps) : u \in Users, ps \in SeqsUpTo(BuildPortDescriptors, MaxBuildPorts)}

HealthCheckTypes == {"port", "", "none"}

Requests ==
  [DockerImageUrl : BuildImageUrls,
   DropletUri : {"", "http://droplet"},
   ExecutionMetadata : BuildBlobs,
   HealthCheckType : HealthCheckTypes,
   AllowSSH : BOOLEAN,
   RoutingInfo : SUBSET RouteKinds,
   FileDescriptors : {0, 32},
   StartCommand : {"start"},
   Environment : {<<[Name |-> "FOO", Value |-> "bar"]>>}]

Idle == "idle"

UriIdle ==
  /\ dockerURI = <<>> /\ converted = None /\ parsed = None /\ reparsed = None
  /\ upc = Idle

PortsIdle == executionMetadata = MalformedBlob /\ extracted = None

BuildLocalsInit ==
  /\ stages = <<>> /\ keyPairs = <<>> /\ rootFSPath = <<>> /\ user = ""
  /\ numFiles = 0 /\ setup = <<>> /\ actions = <<>> /\ monitor = Nil
  /\ desiredAppPorts = <<>> /\ routePorts = <<>> /\ translatedRoutes = None
  /\ desiredAppRoutingInfo = None /\ result = None

BuildIdle ==
  /\ desiredApp = None /\ lifecycles = {} /\ pc = Idle /\ BuildLocalsInit

(***************************************************************************)
(* Build, one action for each stage.                                       *)
(***************************************************************************)
Fail(e) == [kind |-> "err", err |-> e]

\* the alternate source looked at before the image reference
ValidationErrorSourcesFirst(app, lcs) ==
  IF app.DropletUri # "" THEN ErrMultipleAppSources
  ELSE IF app.DockerImageUrl = <<>> THEN ErrDockerImageMissing
  ELSE IF "docker" \notin lcs THEN ErrNoLifecycleDefined
  ELSE ""

\* lines 40-62: the checks of the request, in the order of the code; "" when
\* the request passes
ValidationError(app, lcs) ==
  IF app.DockerImageUrl = <<>> THEN ErrDockerImageMissing
  ELSE IF app.DropletUri # "" /\ app.DockerImageUrl # <<>> THEN ErrMultipleAppSources
  ELSE IF app.DockerImageUrl = <<>> THEN ErrNoDockerImage
  ELSE IF "docker" \notin lcs THEN ErrNoLifecycleDefined
  ELSE ""

\* a monitor built for the port health check only
monitorForPortOnly(healthCheckType, ports, u) ==
  IF healthCheckType = "port"
  THEN [type |-> "Timeout", timeout |-> 30, action |-> getParallelAction(ports, u)]
  ELSE Nil

\* lines 110-113: the monitor is built for the port and the unspecified
\* health check only, and stays nil otherwise
monitorFor(healthCheckType, ports, u) ==
  IF healthCheckType \in {"port", ""}
  THEN [type |-> "Timeout", timeout |-> 30, action |-> getParallelAction(ports, u)]
  ELSE Nil

\* key pairs requested whatever the request says
afterRoutesAlwaysKeys(app) == "hostkey"

\* line 136: the key pairs are requested only when the request allows ssh
afterRoutes(app) == IF app.AllowSSH THEN "hostkey" ELSE "assemble"

\* an insertion that keeps an entry the table already has
setRouteIfAbsent(routes, key, payload) ==
  [r \in DOMAIN routes \cup {key} |-> IF r \in DOMAIN routes THEN routes[r] ELSE payload]

\* line 177: desiredAppRoutingInfo[ssh_routes.DIEGO_SSH] = &sshRouteMessage
setRoute(routes, key, payload) ==
  [r \in DOMAIN routes \cup {key} |-> IF r = key THEN payload ELSE routes[r]]

\* lines 165-169: the SSHRoute payload
sshRoute(hostKeyPair, userKeyPair) ==
  <<"ssh-route", 2222, <<"pem", userKeyPair.id>>, <<"fingerprint", hostKeyPair.id>>>>

\* the ssh port put in front of the image's ports
appendSSHPortFirst(ports) == <<DefaultSSHPort>> \o ports

\* line 178: desiredAppPorts = append(desiredAppPorts, DefaultSSHPort)
appendSSHPort(ports) == Append(ports, DefaultSSHPort)

Return(r) == result' = r /\ pc' = "done"

\* lines 36-62: request validation and the lifecycle lookup
Validate ==
  /\ pc = "start"
  /\ stages' = Append(stages, "validate")
  /\ LET e == ValidationError(desiredApp, lifecycles) IN
     IF e # "" THEN Return(Fail(e))
     ELSE pc' = "convert" /\ UNCHANGED result
  /\ UNCHANGED <<desiredApp, lifecycles, keyPairs, rootFSPath, user, numFiles,
                 setup, actions, monitor, desiredAppPorts, routePorts,
                 translatedRoutes, desiredAppRoutingInfo>>
  /\ UNCHANGED <<uriVars, portVars>>

\* lines 64-71: convertDockerURI
Convert ==
  /\ pc = "convert"
  /\ stages' = Append(stages, "convert")
  /\ LET c == convertDockerURI(desiredApp.DockerImageUrl) IN
     IF c.kind = "ok"
     THEN rootFSPath' = c.url /\ pc' = "metadata" /\ UNCHANGED result
     ELSE Return(c) /\ UNCHANGED rootFSPath
  /\ UNCHANGED <<desiredApp, lifecycles, keyPairs, user, numFiles,
                 setup, actions, monitor, desiredAppPorts, routePorts,
                 translatedRoutes, desiredAppRoutingInfo>>
  /\ UNCHANGED <<uriVars, portVars>>

\* lines 73-103: file descriptor limit, NewDockerExecutionMetadata,
\* extractUser, the lifecycle download
DecodeMetadata ==
  /\ pc = "metadata"
  /\ stages' = Append(stages, "metadata")
  /\ numFiles' = IF desiredApp.FileDescriptors # 0
                 THEN desiredApp.FileDescriptors ELSE DefaultFileDescriptorLimit
  /\ LET md == NewDockerExecutionMetadata(desiredApp.ExecutionMetadata) IN
     IF md.kind = "err"
     THEN Return(md) /\ UNCHANGED <<user, setup>>
     ELSE /\ user' = extractUser(md)
          /\ setup' = Append(setup, [type |-> "Download", To |-> "/tmp/lifecycle",
                                     CacheKey |-> "docker-lifecycle",
                                     User |-> extractUser(md)])
          /\ pc' = "ports" /\ UNCHANGED result
  /\ UNCHANGED <<desiredApp, lifecycles, keyPairs, rootFSPath,
                 actions, monitor, desiredAppPorts, routePorts,
                 translatedRoutes, desiredAppRoutingInfo>>
  /\ UNCHANGED <<uriVars, portVars>>

\* lines 105-128: extractExposedPorts, the monitor, the launcher
ExtractPorts ==
  /\ pc = "ports"
  /\ stages' = Append(stages, "ports")
  /\ LET e == extractExposedPorts(NewDockerExecutionMetadata(desiredApp.ExecutionMetadata)) IN
     IF e.kind = "err"
     THEN Return(e) /\ UNCHANGED <<desiredAppPorts, monitor, actions>>
     ELSE /\ desiredAppPorts' = e.ports
          /\ monitor' = monitorFor(desiredApp.HealthCheckType, e.ports, user)
          /\ actions' = Append(actions,
               [type |-> "Run", User |-> user, Path |-> "/tmp/lifecycle/launcher",
                Args |-> <<"app", desiredApp.StartCommand, desiredApp.ExecutionMetadata>>,
                Env |-> createLrpEnv(desiredApp.Environment, e.ports[1]),
                Nofile |-> numFiles])
          /\ pc' = "routes" /\ UNCHANGED result
  /\ UNCHANGED <<desiredApp, lifecycles, keyPairs, rootFSPath, user, numFiles,
                 setup, routePorts, translatedRoutes, desiredAppRoutingInfo>>
  /\ UNCHANGED <<uriVars, portVars>>

\* lines 130-134: helpers.CCRouteInfoToRoutes
TranslateRoutes ==
  /\ pc = "routes"
  /\ stages' = Append(stages, "routes")
  /\ routePorts' = desiredAppPorts
  /\ \E t \in CCRouteInfoToRoutes(desiredApp.RoutingInfo, desiredAppPorts) :
       /\ translatedRoutes' = t
       /\ IF t.kind = "err"
          THEN Return(t) /\ UNCHANGED desiredAppRoutingInfo
          ELSE /\ desiredAppRoutingInfo' = t
               /\ pc' = afterRoutes(desiredApp)
               /\ UNCHANGED result
  /\ UNCHANGED <<desiredApp, lifecycles, keyPairs, rootFSPath, user, numFiles,
                 setup, actions, monitor, desiredAppPorts>>
  /\ UNCHANGED <<uriVars, portVars>>

\* lines 136-141: the host key pair
HostKeyPair ==
  /\ pc = "hostkey"
  /\ stages' = Append(stages, "hostkey")
  /\ \E k \in NewKeyPair(Len(keyPairs) + 1) :
       /\ keyPairs' = Append(keyPairs, k)
       /\ IF k.kind = "err" THEN Return(k)
          ELSE pc' = "userkey" /\ UNCHANGED result
  /\ UNCHANGED <<desiredApp, lifecycles, rootFSPath, user, numFiles,
                 setup, actions, monitor, desiredAppPorts, routePorts,
                 translatedRoutes, desiredAppRoutingInfo>>
  /\ UNCHANGED <<uriVars, portVars>>

\* lines 143-179: the user key pair, the sshd action, the ssh route and port
UserKeyPair ==
  /\ pc = "userkey"
  /\ stages' = Append(stages, "userkey")
  /\ \E k \in NewKeyPair(Len(keyPairs) + 1) :
       /\ keyPairs' = Append(keyPairs, k)
       /\ IF k.kind = "err"
          THEN Return(k) /\ UNCHANGED <<actions, desiredAppRoutingInfo, desiredAppPorts>>
          ELSE /\ actions' = Append(actions,
                    [type |-> "Run", User |-> user, Path |-> "/tmp/lifecycle/diego-sshd",
                     Args |-> <<<<"-address=0.0.0.0:", DefaultSSHPort>>,
                                <<"-hostKey=", "pem", keyPairs[1].id>>,
                                <<"-authorizedKey=", "authorized", k.id>>,
                                "-inheritDaemonEnv", "-logLevel=fatal">>,
                     Env |-> createLrpEnv(desiredApp.Environment, desiredAppPorts[1]),
                     Nofile |-> numFiles])
               /\ desiredAppRoutingInfo' =
                    [kind |-> "ok",
                     routes |-> setRoute(desiredAppRoutingInfo.routes, DIEGO_SSH,
                                         sshRoute(keyPairs[1], k))]
               /\ desiredAppPorts' = appendSSHPort(desiredAppPorts)
               /\ pc' = "assemble" /\ UNCHANGED result
  /\ UNCHANGED <<desiredApp, lifecycles, rootFSPath, user, numFiles,
                 setup, monitor, routePorts, translatedRoutes>>
  /\ UNCHANGED <<uriVars, portVars>>

\* lines 181-217: the DesiredLRP
Assemble ==
  /\ pc = "assemble"
  /\ stages' = Append(stages, "assemble")
  /\ Return([kind |-> "lrp",
             Routes |-> desiredAppRoutingInfo.routes,
             Ports |-> desiredAppPorts,
             RootFs |-> rootFSPath,
             Setup |-> WrapAction([type |-> "Serial", actions |-> setup]),
             Action |-> WrapAction([type |-> "Codependent", actions |-> actions]),
             Monitor |-> WrapAction(monitor)])
  /\ UNCHANGED <<desiredApp, lifecycles, keyPairs, rootFSPath, user, numFiles,
                 setup, actions, monitor, desiredAppPorts, routePorts,
                 translatedRoutes, desiredAppRoutingInfo>>
  /\ UNCHANGED <<uriVars, portVars>>

Init ==
  /\ UriIdle /\ PortsIdle
  /\ desiredApp \in Requests
  /\ lifecycles \in {{}, {"docker"}}
  /\ pc = "start"
  /\ BuildLocalsInit

Next ==
  \/ Validate
  \/ Convert
  \/ DecodeMetadata
  \/ ExtractPorts
  \/ TranslateRoutes
  \/ HostKeyPair
  \/ UserKeyPair
  \/ Assemble

Spec == Init /\ [][Next]_vars

(***************************************************************************)
(* The reference normaliser run on its own.                                *)
(***************************************************************************)
ConvertDockerURI ==
  /\ upc = "input"
  /\ converted' = convertDockerURI(dockerURI)
  /\ upc' = "converted"
  /\ UNCHANGED <<dockerURI, parsed, reparsed, portVars, buildVars>>

ParseDockerRepoUrl ==
  /\ upc = "converted"
  /\ converted.kind # "err"
  /\ parsed' = parseDockerRepoUrl(dockerURI)
  /\ upc' = "parsed"
  /\ UNCHANGED <<dockerURI, converted, reparsed, portVars, buildVars>>

\* the normaliser applied to the canonical path of its own output
Renormalize ==
  /\ upc = "parsed"
  /\ parsed.kind = "ok"
  /\ reparsed' = parseDockerRepoUrl(CanonicalPath(parsed))
  /\ upc' = "reparsed"
  /\ UNCHANGED <<dockerURI, converted, parsed, portVars, buildVars>>

InitURI ==
  /\ dockerURI \in ImageRefs
  /\ converted = None /\ parsed = None /\ reparsed = None
  /\ upc = "input"
  /\ PortsIdle /\ BuildIdle

NextURI == ConvertDockerURI \/ ParseDockerRepoUrl \/ Renormalize

SpecURI == InitURI /\ [][NextURI]_vars

(***************************************************************************)
(* Port extraction run on its own.                                         *)
(***************************************************************************)
ExtractExposedPorts ==
  /\ extracted = None
  /\ extracted' = ExtractExposedPortsOf(executionMetadata)
  /\ UNCHANGED <<executionMetadata, uriVars, buildVars>>

InitPorts ==
  /\ executionMetadata \in
       {MalformedBlob} \cup
       {Blob(u, ps) : u \in Users, ps \in SeqsUpTo(PortDescriptors, MaxPorts)}
  /\ extracted = None
  /\ UriIdle /\ BuildIdle

NextPorts == ExtractExposedPorts

SpecPorts == InitPorts /\ [][NextPorts]_vars

(***************************************************************************)
(* Claims about the reference normaliser, checked under SpecURI.           *)
(***************************************************************************)
Triple(p) == [indexName |-> p.indexName, remoteName |-> p.remoteName, tag |-> p.tag]

\* the triple the reference rules of the specification define
RuleTriple(uri) ==
  LET i == IndexOf(uri, "/")
      single == i = 0
      left == IF single THEN uri ELSE SubSeq(uri, 1, i - 1)
      rest == IF single THEN <<>> ELSE SubSeq(uri, i + 1, Len(uri))
      official == \/ single
                  \/ left = DockerIndexServer
                  \/ (\A k \in 1..Len(left) : left[k] \notin {".", ":"}) /\ left # Localhost
      index == IF official
               THEN (IF left = DockerIndexServer THEN DockerIndexServer ELSE <<>>)
               ELSE left
      repo0 == IF official
               THEN (IF left = DockerIndexServer THEN rest ELSE uri)
               ELSE rest
      repo1 == IF official /\ (\A k \in 1..Len(repo0) : repo0[k] # "/")
               THEN LibraryPrefix \o repo0 ELSE repo0
      colons == {k \in 1..Len(repo1) : repo1[k] = ":"}
      n == IF colons = {} THEN 0 ELSE CHOOSE k \in colons : \A m \in colons : m <= k
      hasTag == n > 0 /\ \A k \in (n + 1)..Len(repo1) : repo1[k] # "/"
  IN [indexName |-> index,
      remoteName |-> IF hasTag THEN SubSeq(repo1, 1, n - 1) ELSE repo1,
      tag |-> IF hasTag THEN SubSeq(repo1, n + 1, Len(repo1)) ELSE <<>>]

\* C3: for every scheme-less image reference, parseDockerRepoUrl returns the
\* (index, repository, tag) triple the reference rules define; "ubuntu",
\* "myregistry.com:5000/foo/bar:1.0" and "docker.io/library/nginx" give the
\* triples the specification lists.
C3_ParseReturnsRuleTriple ==
  upc \in {"parsed", "reparsed"} =>
    /\ parsed.kind = "ok"
    /\ Triple(parsed) = RuleTriple(dockerURI)
    /\ dockerURI = RefUbuntu =>
         Triple(parsed) = [indexName |-> <<>>, remoteName |-> <<"l","i","b","r","a","r","y","/","u","b","u","n","t","u">>, tag |-> <<>>]
    /\ dockerURI = RefMyRegistry =>
         Triple(parsed) = [indexName |-> <<"m","y","r","e","g","i","s","t","r","y",".","c","o","m",":","5","0","0","0">>, remoteName |-> <<"f","o","o","/","b","a","r">>,
                           tag |-> <<"1",".","0">>]
    /\ dockerURI = RefNginx =>
         Triple(parsed) = [indexName |-> DockerIndexServer, remoteName |-> <<"l","i","b","r","a","r","y","/","n","g","i","n","x">>,
                           tag |-> <<>>]

\* the repository has no ':' after its last '/'
NoColonInLastSegment(remoteName) ==
  LastIndexOf(remoteName, ":") <= LastIndexOf(remoteName, "/")

Idempotent ==
  /\ reparsed.kind = "ok"
  /\ reparsed.indexName = parsed.indexName
  /\ reparsed.remoteName = parsed.remoteName
  /\ reparsed.tag = <<>>

\* C4 as stated: normalising the canonical path of any normalised reference
\* yields the same index and repository and splits off no further tag.
C4_IdempotentAlways == upc = "reparsed" => Idempotent

\* C4 as amended: normalising the canonical path yields the same index and
\* repository with no further tag exactly when the normalised repository has
\* no ':' in its last path segment; otherwise a second tag is split off.
C4_IdempotentWithoutSecondColon ==
  upc = "reparsed" =>
    /\ Idempotent <=> NoColonInLastSegment(parsed.remoteName)
    /\ ~NoColonInLastSegment(parsed.remoteName) =>
         /\ reparsed.kind = "ok"
         /\ reparsed.indexName = parsed.indexName
         /\ reparsed.tag # <<>> \/ reparsed.remoteName # parsed.remoteName

C4_Witness ==
  /\ upc = "reparsed"
  /\ parsed.indexName # <<>> /\ parsed.tag # <<>>
  /\ NoColonInLastSegment(parsed.remoteName)
  /\ Idempotent

\* the serialisation of a scheme, a path and a tag
Serialized(path, tag) ==
  DockerScheme \o <<":","/","/">> \o escape(path, "path")
    \o (IF tag = <<>> THEN <<>> ELSE <<"#">> \o escape(tag, "fragment"))

\* C6 as stated: the serialised reference has the fixed scheme, the tag as
\* its fragment (none when the tag is empty), and as its path
\* index + "/" + repository when the index is non-empty and just the
\* repository, with no leading separator, when the index is empty.
C6_PathOmitsEmptyIndex ==
  upc \in {"parsed", "reparsed"} /\ converted.kind = "ok" =>
    converted.url = Serialized(CanonicalPath(parsed), parsed.tag)

\* C6 as amended: the path is index + "/" + repository for every index, so
\* with an empty index it is "/" + repository, the leading separator kept
\* ("ubuntu" serialises to docker:///library/ubuntu); scheme and fragment
\* are as stated.
C6_PathKeepsSeparator ==
  upc \in {"parsed", "reparsed"} /\ converted.kind = "ok" =>
    /\ converted.url =
         Serialized(parsed.indexName \o <<"/">> \o parsed.remoteName, parsed.tag)
    /\ dockerURI = RefUbuntu => converted.url = <<"d","o","c","k","e","r",":","/","/","/","l","i","b","r","a","r","y","/","u","b","u","n","t","u">>
    /\ dockerURI = RefMyRegistry => converted.url = <<"d","o","c","k","e","r",":","/","/","m","y","r","e","g","i","s","t","r","y",".","c","o","m",":","5","0","0","0","/","f","o","o","/","b","a","r","#","1",".","0">>

C6_Witness ==
  /\ upc = "parsed" /\ converted.kind = "ok"
  /\ parsed.indexName = <<>> /\ parsed.tag # <<>>
  /\ Contains(converted.url, <<"/","/","/">>)
  /\ Contains(converted.url, <<"#">>)

(***************************************************************************)
(* Claim about port extraction, checked under SpecPorts.                   *)
(***************************************************************************)
IsTcp(d) == d.Protocol = "tcp"

\* the declared ports whose protocol is tcp, in declaration order
TcpPorts(declared) ==
  LET tcp == SelectSeq(declared, IsTcp) IN [i \in 1..Len(tcp) |-> tcp[i].Port]

\* C5: with no declared port the result is the list holding the default
\* port; with declared ports it is the sub-sequence of the tcp ones, in
\* order, duplicates kept, the default port not added; with declared ports
\* of which none is tcp extraction fails; a successful extraction is never
\* empty.
C5_PortExtraction ==
  extracted # None /\ executionMetadata.kind = "json" =>
    LET declared == executionMetadata.ExposedPorts IN
    /\ declared = <<>> => extracted = [kind |-> "ok", ports |-> <<DefaultPort>>]
    /\ declared # <<>> /\ TcpPorts(declared) # <<>> =>
         extracted = [kind |-> "ok", ports |-> TcpPorts(declared)]
    /\ declared # <<>> /\ TcpPorts(declared) = <<>> =>
         extracted = [kind |-> "err", err |-> ErrNoTcpPorts]
    /\ extracted.kind = "ok" => Len(extracted.ports) >= 1

C5_Witness ==
  /\ extracted.kind = "ok"
  /\ Len(executionMetadata.ExposedPorts) = 3
  /\ Len(extracted.ports) = 2
  /\ extracted.ports[1] = extracted.ports[2]
  /\ extracted.ports[1] # DefaultPort

(***************************************************************************)
(* Claims about Build, checked under Spec.                                 *)
(***************************************************************************)
Built == pc = "done" /\ result.kind = "lrp"

\* the ports the image metadata of the request yields
ImagePorts ==
  extractExposedPorts(NewDockerExecutionMetadata(desiredApp.ExecutionMetadata)).ports

\* the children of the run action-group of the result
RunChildren == result.Action.action.actions

\* C1: an empty image reference fails with ErrDockerImageMissing whatever the
\* alternate source; otherwise a non-empty alternate source fails with
\* ErrMultipleAppSources; otherwise a missing docker lifecycle fails with
\* ErrNoLifecycleDefined; whatever the other fields of the request.
C1_ValidationOrder ==
  pc = "done" =>
    /\ desiredApp.DockerImageUrl = <<>> => result = Fail(ErrDockerImageMissing)
    /\ desiredApp.DockerImageUrl # <<>> /\ desiredApp.DropletUri # "" =>
         result = Fail(ErrMultipleAppSources)
    /\ /\ desiredApp.DockerImageUrl # <<>>
       /\ desiredApp.DropletUri = ""
       /\ "docker" \notin lifecycles
       => result = Fail(ErrNoLifecycleDefined)

C1_Witness ==
  /\ pc = "done"
  /\ desiredApp.DockerImageUrl = <<>>
  /\ desiredApp.DropletUri # ""
  /\ desiredApp.ExecutionMetadata = MalformedBlob
  /\ desiredApp.AllowSSH
  /\ lifecycles = {}
  /\ result = Fail(ErrDockerImageMissing)

\* C2 as stated: with the ssh flag set a successful Build has one more port
\* (the ssh port, last), one more route-table entry and two Run children,
\* compared with the same request with the flag cleared, also when the
\* translated routes already hold an entry under the ssh route identifier.
C2_AlwaysOneMoreRoute ==
  Built /\ desiredApp.AllowSSH =>
    /\ result.Ports = Append(ImagePorts, DefaultSSHPort)
    /\ Cardinality(DOMAIN result.Routes) =
         Cardinality(DOMAIN translatedRoutes.routes) + 1
    /\ Len(RunChildren) = 2

\* C2 as amended: with the flag cleared the result has the image's ports,
\* the translated route table and one Run child (the launcher); with the
\* flag set it has the ssh port appended last, the launcher and the sshd as
\* Run children, and the translated route table with the entry under the
\* ssh route identifier set to the ssh route: one more entry when the
\* translated table has none under that identifier, and the same number of
\* entries, that entry replaced, when it has one.
C2_SSHAddsPortActionAndRoute ==
  Built =>
    LET base == translatedRoutes.routes IN
    /\ ~desiredApp.AllowSSH =>
         /\ result.Ports = ImagePorts
         /\ result.Routes = base
         /\ Len(RunChildren) = 1
         /\ RunChildren[1].Path = "/tmp/lifecycle/launcher"
    /\ desiredApp.AllowSSH =>
         /\ result.Ports = Append(ImagePorts, DefaultSSHPort)
         /\ Len(RunChildren) = 2
         /\ RunChildren[1].Path = "/tmp/lifecycle/launcher"
         /\ RunChildren[2].Path = "/tmp/lifecycle/diego-sshd"
         /\ DOMAIN result.Routes = DOMAIN base \cup {DIEGO_SSH}
         /\ \A k \in DOMAIN base \ {DIEGO_SSH} : result.Routes[k] = base[k]
         /\ result.Routes[DIEGO_SSH] = sshRoute(keyPairs[1], keyPairs[2])
         /\ Cardinality(DOMAIN result.Routes) =
              Cardinality(DOMAIN base) + (IF DIEGO_SSH \in DOMAIN base THEN 0 ELSE 1)

C2_Witness ==
  /\ Built /\ desiredApp.AllowSSH
  /\ DIEGO_SSH \in DOMAIN translatedRoutes.routes
  /\ CF_ROUTER \in DOMAIN translatedRoutes.routes
  /\ Cardinality(DOMAIN result.Routes) = 2

\* C7 as stated: the ports handed to route translation are the port list of
\* the result, the ssh port included when the ssh flag is set.
C7_RoutePortsAreFinalPorts == Built => routePorts = result.Ports

\* C7 as amended: the ports handed to route translation are the ports
\* extracted from the image metadata; the port list of the result is that
\* list, followed by the ssh port when the ssh flag is set (the ssh port is
\* appended after route translation and never handed to it).
C7_RoutePortsAreImagePorts ==
  Built =>
    /\ routePorts = ImagePorts
    /\ result.Ports =
         routePorts \o (IF desiredApp.AllowSSH THEN <<DefaultSSHPort>> ELSE <<>>)

C7_Witness ==
  /\ Built /\ desiredApp.AllowSSH
  /\ Len(routePorts) = 2
  /\ Len(result.Ports) = 3

ErrMalformedImageReference == "MalformedImageReference"

\* C8: a request that passes validation ends with a RunSpec or an error; a
\* reference with "://" is reported as ErrScheme, and a reference that is
\* only the default index hostname as a malformed image reference.
C8_NoCrashOnImageReference ==
  pc = "done" /\ ValidationError(desiredApp, lifecycles) = "" =>
    /\ result.kind \in {"lrp", "err"}
    /\ Contains(desiredApp.DockerImageUrl, SchemeSeparator) => result = Fail(ErrScheme)
    /\ desiredApp.DockerImageUrl = DockerIndexServer =>
         result = Fail(ErrMalformedImageReference)

StageOrder == <<"validate", "convert", "metadata", "ports", "routes">>

NoTcpDeclared(blob) ==
  /\ blob.kind = "json"
  /\ blob.ExposedPorts # <<>>
  /\ \A i \in 1..Len(blob.ExposedPorts) : blob.ExposedPorts[i].Protocol # "tcp"

ProbedPorts ==
  LET probes == result.Monitor.action.action.actions
  IN [i \in 1..Len(probes) |-> probes[i].Args[2]]

MonitorShape ==
  /\ result.Monitor.type = "Wrapped"
  /\ result.Monitor.action.type = "Timeout"
  /\ result.Monitor.action.timeout = 30
  /\ result.Monitor.action.action.type = "Parallel"
  /\ \A i \in 1..Len(result.Monitor.action.action.actions) :
       result.Monitor.action.action.actions[i].User = user

\* C10 as stated: the monitor is present exactly for the port and the
\* unspecified health check; when present it is a 30-second timeout around a
\* probe group, run as the extracted user, probing every port of the port
\* list of the result, the ssh port included.
C10_MonitorProbesFinalPorts ==
  Built =>
    /\ result.Monitor # Nil <=> desiredApp.HealthCheckType \in {"port", ""}
    /\ result.Monitor # Nil => MonitorShape /\ ProbedPorts = result.Ports

\* C10 as amended: the same, except that the probed ports are the ports
\* extracted from the image metadata: the port list of the result without
\* the ssh port that the ssh flag appends, which is never probed.
C10_MonitorProbesImagePorts ==
  Built =>
    /\ result.Monitor # Nil <=> desiredApp.HealthCheckType \in {"port", ""}
    /\ result.Monitor # Nil =>
         /\ MonitorShape
         /\ user = extractUser(desiredApp.ExecutionMetadata)
         /\ ProbedPorts = ImagePorts
         /\ result.Ports =
              ProbedPorts \o (IF desiredApp.AllowSSH THEN <<DefaultSSHPort>> ELSE <<>>)

C10_Witness ==
  /\ Built /\ desiredApp.AllowSSH
  /\ desiredApp.HealthCheckType = ""
  /\ result.Monitor # Nil
  /\ Len(ProbedPorts) = 2
  /\ desiredApp.ExecutionMetadata.User = "vcap"

====
